---- MODULE Spec2Model ----
(***************************************************************************)
(* State-machine model of the HBnB REST API (part4/hbnb): the route        *)
(* handlers of app/api/v1, the facade of app/services/facade.py, the       *)
(* SQLAlchemy models of app/models and the relational store behind them.   *)
(* One action per route handler; a handler runs to completion (one request *)
(* at a time), and a request whose commit fails leaves the store as it was.*)
(***************************************************************************)
EXTENDS Integers, FiniteSets, Sequences, TLC

\* ----- bounds of the model
MaxUsers == 3
MaxPlaces == 2
MaxReviews == 2
MaxAmenities == 1

\* ----- HTTP statuses used by the handlers
OK == 200
Created == 201
NoContent == 204
BadRequest == 400
Unauthorized == 401
Forbidden == 403
NotFound == 404
Conflict == 409
InternalError == 500

\* Python None for an id, a missing id in a payload
None == 0
\* a column that was never assigned (NULL)
Null == "<null>"

VARIABLES users, places, reviews, amenities, place_amenity, tokens, nextId, last, inflight

vars == <<users, places, reviews, amenities, place_amenity, tokens, nextId, last, inflight>>
store == <<users, places, reviews, amenities, place_amenity>>

\* ======================================================================
\* Values carried by payloads
\* ======================================================================

\* value.strip() on the strings of the model
Strip(s) == CASE s = " " -> ""
              [] s = " Al " -> "Al"
              [] OTHER -> s

\* "not value or not value.strip()" of the string validators
IsBlank(s) == s = "" \/ Strip(s) = ""

\* email_validator.validate_email(value, check_deliverability=False):
\* syntactically valid addresses of the model
EmailSyntaxOk(e) ==
  e \in {"a@x.com", "A@x.com", "a@X.com", "b@x.com", "b@X.com", "c@x.com", "admin@x.com"}

\* emailinfo.normalized: the domain is lower-cased, the local part is kept
NormalizeEmail(e) == CASE e = "a@X.com" -> "a@x.com"
                       [] e = "b@X.com" -> "b@x.com"
                       [] OTHER -> e

\* str.lower() of a whole address (what a case-insensitive comparison sees)
LowerEmail(e) == CASE e = "A@x.com" -> "a@x.com"
                   [] e = "a@X.com" -> "a@x.com"
                   [] e = "b@X.com" -> "b@x.com"
                   [] OTHER -> e

\* bcrypt.generate_password_hash: an opaque one-way image of the plain text
HashPassword(p) == <<"bcrypt", p>>

\* bcrypt.check_password_hash(stored, p)
verify_password(user, p) == user.password = HashPassword(p)

\* outcome of a model constructor or of a facade call:
\* exc is "none" or the class of the exception raised
Raise(e) == [exc |-> e, obj |-> <<>>]
Return(o) == [exc |-> "none", obj |-> o]
\* a facade call that returns None (entity not found)
ReturnNone == [exc |-> "None", obj |-> <<>>]

\* a key that the payload does not carry
Absent == "<absent>"
AbsentNum == 0 - 9999

\* table rows as functions from ids
Put(f, k, v) == [x \in DOMAIN f \cup {k} |-> IF x = k THEN v ELSE f[x]]
Drop(f, S) == [x \in DOMAIN f \ S |-> f[x]]

\* effect of a request: the status returned and the tables after it
Keep(st) == [status |-> st, users |-> users, places |-> places, reviews |-> reviews,
             amenities |-> amenities, place_amenity |-> place_amenity, new |-> None]

NothingGone == [places |-> {}, reviews |-> {}, place_amenity |-> {}]

\* rows that a request removed from places, reviews and place_amenity
RowsGone(eff) == [places |-> DOMAIN places \ DOMAIN eff.places,
                  reviews |-> DOMAIN reviews \ DOMAIN eff.reviews,
                  place_amenity |-> place_amenity \ eff.place_amenity]

\* a handler's response and the committed tables become the next state;
\* last keeps the request's route, its target and what came back
Respond(op, target, eff) ==
  /\ users' = eff.users
  /\ places' = eff.places
  /\ reviews' = eff.reviews
  /\ amenities' = eff.amenities
  /\ place_amenity' = eff.place_amenity
  /\ last' = [op |-> op, target |-> IF eff.new # None THEN eff.new ELSE target,
              status |-> eff.status, gone |-> RowsGone(eff)]


\* ======================================================================
\* Store queries (SQLAlchemyRepository)
\* ======================================================================

\* SQLAlchemyRepository.get on each table
UserExists(id) == id \in DOMAIN users
PlaceExists(id) == id \in DOMAIN places
ReviewExists(id) == id \in DOMAIN reviews
AmenityExists(id) == id \in DOMAIN amenities

\* UserRepository.get_user_by_email: filter_by(email=email), an exact
\* (case-sensitive) comparison with the stored column
UsersByEmail(email) == {u \in DOMAIN users : users[u].email = email}
get_user_by_email(email) == IF UsersByEmail(email) = {} THEN None
                            ELSE CHOOSE u \in UsersByEmail(email) : TRUE

\* ======================================================================
\* Users
\* ======================================================================

\* User.validate_first_name / validate_last_name
NameInvalid(v) == IsBlank(v)

\* User.validate_email_field
EmailInvalid(v) == v = "" \/ ~EmailSyntaxOk(v)

\* User.hash_password precondition: at least 6 characters
PasswordTooShort(p) == Len(p) < 6

\* User.__init__(**user_data): each truthy argument goes through its validator
UserInit(d) ==
  IF d.first_name # "" /\ NameInvalid(d.first_name) THEN Raise("ValueError")
  ELSE IF d.last_name # "" /\ NameInvalid(d.last_name) THEN Raise("ValueError")
  ELSE IF d.email # "" /\ EmailInvalid(d.email) THEN Raise("ValueError")
  ELSE IF d.password # "" /\ PasswordTooShort(d.password) THEN Raise("ValueError")
  ELSE Return([first_name |-> IF d.first_name # "" THEN Strip(d.first_name) ELSE Null,
               last_name |-> IF d.last_name # "" THEN Strip(d.last_name) ELSE Null,
               email |-> IF d.email # "" THEN NormalizeEmail(d.email) ELSE Null,
               password |-> IF d.password # "" THEN HashPassword(d.password) ELSE <<Null>>,
               is_admin |-> d.is_admin])

\* users table constraints checked at commit: nullable=False columns and
\* unique=True on email; self is the row being written
UserRowViolates(self, row) ==
  \/ row.first_name = Null
  \/ row.last_name = Null
  \/ row.email = Null
  \/ row.password = <<Null>>
  \/ \E u \in DOMAIN users : u # self /\ users[u].email = row.email

\* HBnBFacade.create_user
create_user(d) ==
  IF d.email = "" THEN Raise("ValueError")
  ELSE IF get_user_by_email(d.email) # None THEN Raise("ValueError")
  ELSE LET u == UserInit(d) IN
       IF u.exc # "none" THEN u
       ELSE IF UserRowViolates(None, u.obj) THEN Raise("IntegrityError")
       ELSE u

\* UserList.post: the except clauses of the handler
CreateUserStatus(exc) == CASE exc = "none" -> Created
                           [] exc \in {"ValueError", "TypeError"} -> BadRequest
                           [] OTHER -> InternalError

\* UserList.post
CreateUserEffect(d) ==
  LET r == create_user(d) IN
  IF r.exc = "none"
  THEN [Keep(Created) EXCEPT !.users = Put(users, nextId.u, r.obj), !.new = nextId.u]
  ELSE Keep(CreateUserStatus(r.exc))

\* POST /users/ (public)
CreateUser(d) ==
  /\ nextId.u <= MaxUsers
  /\ Respond("create_user", None, CreateUserEffect(d))
  /\ nextId' = IF CreateUserEffect(d).status = Created
               THEN [nextId EXCEPT !.u = @ + 1] ELSE nextId
  /\ UNCHANGED <<tokens, inflight>>

\* POST /auth/login: a token carries the user's id and its is_admin flag
\* as they are at login
Login(email, password) ==
  /\ LET u == get_user_by_email(email) IN
       IF u = None \/ ~verify_password(users[u], password)
       THEN /\ tokens' = tokens
            /\ last' = [op |-> "login", target |-> None, status |-> Unauthorized,
                        gone |-> NothingGone]
       ELSE /\ tokens' = tokens \cup {[id |-> u, is_admin |-> users[u].is_admin]}
            /\ last' = [op |-> "login", target |-> u, status |-> OK, gone |-> NothingGone]
  /\ UNCHANGED <<users, places, reviews, amenities, place_amenity, nextId, inflight>>

\* HBnBFacade.update_user; BaseModel.update sets each key of the payload that
\* is an attribute of the model through its validator, then commits
update_user(id, d) ==
  IF ~UserExists(id) THEN ReturnNone
  ELSE IF d.keys \cap {"id", "created_at"} # {} THEN Raise("ValueError")
  ELSE IF d.email # Absent /\ get_user_by_email(d.email) \notin {None, id}
       THEN Raise("ValueError")
  ELSE IF d.password # Absent /\ (d.password = "" \/ PasswordTooShort(d.password))
       THEN Raise("ValueError")
  ELSE IF d.first_name # Absent /\ NameInvalid(d.first_name) THEN Raise("ValueError")
  ELSE IF d.last_name # Absent /\ NameInvalid(d.last_name) THEN Raise("ValueError")
  ELSE IF d.email # Absent /\ EmailInvalid(d.email) THEN Raise("ValueError")
  ELSE LET row == [first_name |-> IF d.first_name # Absent THEN Strip(d.first_name)
                                  ELSE users[id].first_name,
                   last_name |-> IF d.last_name # Absent THEN Strip(d.last_name)
                                 ELSE users[id].last_name,
                   email |-> IF d.email # Absent THEN NormalizeEmail(d.email)
                             ELSE users[id].email,
                   password |-> IF d.password # Absent THEN HashPassword(d.password)
                                ELSE users[id].password,
                   is_admin |-> IF d.is_admin # Absent THEN d.is_admin = "true"
                                ELSE users[id].is_admin]
       IN IF UserRowViolates(id, row) THEN Raise("IntegrityError") ELSE Return(row)

\* UserResource.put / AdminUserResource.put: ValueError is caught, any other
\* exception is unhandled
UpdateUserEffect(id, r) ==
  CASE r.exc = "none" -> [Keep(OK) EXCEPT !.users = Put(users, id, r.obj)]
    [] r.exc = "None" -> Keep(NotFound)
    [] r.exc = "ValueError" -> Keep(BadRequest)
    [] OTHER -> Keep(InternalError)

\* the payload's is_admin handed to the facade too: what C14 rules out
SelfUpdateDataWithRole(d) == [first_name |-> d.first_name, last_name |-> d.last_name,
                              email |-> Absent, password |-> Absent,
                              is_admin |-> d.is_admin, keys |-> {}]

\* UserResource.put: the fields handed to the facade
SelfUpdateData(d) == [first_name |-> d.first_name, last_name |-> d.last_name,
                      email |-> Absent, password |-> Absent, is_admin |-> Absent,
                      keys |-> {}]

\* the password left unverified: what C13 rules out
EmailMatches(user, d) == user.email = d.email

\* UserResource.put: re-proof of the current email and password
CredentialsMatch(user, d) == user.email = d.email /\ verify_password(user, d.password)

\* UserResource.put
UpdateUserSelfEffect(actor, user_id, d) ==
  IF actor.id # user_id THEN Keep(Forbidden)
  ELSE IF ~UserExists(user_id) THEN Keep(NotFound)
  ELSE IF ~CredentialsMatch(users[user_id], d) THEN Keep(Unauthorized)
  ELSE UpdateUserEffect(user_id, update_user(user_id, SelfUpdateData(d)))

\* PUT /users/<user_id>
UpdateUserSelf(actor, user_id, d) ==
  /\ Respond("update_user_self", user_id, UpdateUserSelfEffect(actor, user_id, d))
  /\ UNCHANGED <<tokens, nextId, inflight>>

\* AdminUserResource.put: empty values are removed from the payload
AdminUpdateData(d) == [d EXCEPT !.first_name = IF @ = "" THEN Absent ELSE @,
                                !.last_name = IF @ = "" THEN Absent ELSE @,
                                !.email = IF @ = "" THEN Absent ELSE @,
                                !.password = IF @ = "" THEN Absent ELSE @]

\* AdminUserResource.put: the handler's own uniqueness check
EmailTakenByOther(user_id, d) ==
  d.email \notin {Absent, ""} /\ get_user_by_email(d.email) \notin {None, user_id}

\* AdminUserResource.put
UpdateUserAdminEffect(actor, user_id, d) ==
  IF ~actor.is_admin THEN Keep(Forbidden)
  ELSE IF ~UserExists(user_id) THEN Keep(NotFound)
  ELSE IF EmailTakenByOther(user_id, d) THEN Keep(BadRequest)
  ELSE UpdateUserEffect(user_id, update_user(user_id, AdminUpdateData(d)))

\* PUT /users/admin/<user_id>
UpdateUserAdmin(actor, user_id, d) ==
  /\ Respond("update_user_admin", user_id, UpdateUserAdminEffect(actor, user_id, d))
  /\ UNCHANGED <<tokens, nextId, inflight>>

\* ----- cascades of the relational store (relationship declarations)

\* Place.reviews without its delete cascade: what C29 rules out
NoReviewsOfPlaces(P) == {}

\* Place.reviews (cascade='all, delete-orphan'): reviews removed with places P
ReviewsOfPlaces(P) == {r \in DOMAIN reviews : reviews[r].place_id \in P}

\* User.reviews without its delete cascade: what C9 rules out
NoReviewsOfUser(u) == {}

\* User.reviews (cascade='all, delete-orphan'): reviews removed with user u
ReviewsOfUser(u) == {r \in DOMAIN reviews : reviews[r].user_id = u}

\* User.places (cascade='all, delete-orphan'): places removed with user u
PlacesOfUser(u) == {p \in DOMAIN places : places[p].owner_id = u}

\* the amenities of a deleted user removed with the user: what C24 rules out
DeleteAmenitiesOfUsers(P, U) ==
  [a \in {x \in DOMAIN amenities : amenities[x].owner_id \notin U} |->
     [amenities[a] EXCEPT !.place_id = IF @ \in P THEN None ELSE @]]

\* Amenity.place / Amenity.owner (no delete cascade): the foreign key of a
\* row that refers to a deleted parent is set to NULL
NullifyAmenities(P, U) ==
  [a \in DOMAIN amenities |->
     [amenities[a] EXCEPT !.place_id = IF @ \in P THEN None ELSE @,
                          !.owner_id = IF @ \in U THEN None ELSE @]]

\* the association rows of deleted places left behind: what C10 rules out
AssociationsKept(P) == place_amenity

\* place_amenity rows of deleted places are removed, amenities are kept
AssociationsWithout(P) == {pa \in place_amenity : pa[1] \notin P}

\* SQLAlchemyRepository.delete on users: the row and everything that cascades
DeleteUserEffect(u) ==
  LET P == PlacesOfUser(u) IN
  [status |-> OK,
   users |-> Drop(users, {u}),
   places |-> Drop(places, P),
   reviews |-> Drop(reviews, ReviewsOfUser(u) \cup ReviewsOfPlaces(P)),
   amenities |-> NullifyAmenities(P, {u}),
   place_amenity |-> AssociationsWithout(P),
   new |-> None]

\* HBnBFacade.delete_user
delete_user(user_id) == IF ~UserExists(user_id) THEN Keep(NotFound)
                        ELSE DeleteUserEffect(user_id)

\* users allowed to delete their own account: what C15 rules out
DeleteUserOrSelfEffect(actor, user_id) ==
  IF ~actor.is_admin /\ actor.id # user_id THEN Keep(Forbidden) ELSE delete_user(user_id)

\* UserResource.delete: admin only
DeleteUserRequestEffect(actor, user_id) ==
  IF ~actor.is_admin THEN Keep(Forbidden) ELSE delete_user(user_id)

\* DELETE /users/<user_id>
DeleteUser(actor, user_id) ==
  /\ Respond("delete_user", user_id, DeleteUserRequestEffect(actor, user_id))
  /\ UNCHANGED <<tokens, nextId, inflight>>

\* ======================================================================
\* Places
\* ======================================================================

\* Place.validate_title
TitleInvalid(v) == IsBlank(v)
\* Place.validate_price: Decimal(str(value)) < 0
PriceInvalid(v) == v < 0
\* Place.validate_latitude / validate_longitude (whole degrees in the model)
LatitudeInvalid(v) == v < 0 - 90 \/ v > 90
LongitudeInvalid(v) == v < 0 - 180 \/ v > 180

\* an abort() raised inside the try block of places.py and amenities.py is an
\* HTTPException, which "except Exception" catches and turns into a 500
AbortInsideTry(code) == InternalError

\* the try block of reviews.py has "except HTTPException: raise" first
AbortInsideReviewTry(code) == code

\* places.py / amenities.py / reviews.py: status for an exception of the facade
FacadeErrorStatus(exc) == IF exc = "ValueError" THEN BadRequest ELSE InternalError

\* Place.__init__
PlaceInit(d) ==
  IF d.title # "" /\ TitleInvalid(d.title) THEN Raise("ValueError")
  ELSE IF PriceInvalid(d.price) THEN Raise("ValueError")
  ELSE IF LatitudeInvalid(d.latitude) THEN Raise("ValueError")
  ELSE IF LongitudeInvalid(d.longitude) THEN Raise("ValueError")
  ELSE Return([title |-> IF d.title # "" THEN Strip(d.title) ELSE Null,
               price |-> d.price, latitude |-> d.latitude, longitude |-> d.longitude,
               owner_id |-> d.owner_id])

\* places table constraints checked at commit (nullable=False)
PlaceRowViolates(row) == row.title = Null \/ row.owner_id = None

\* HBnBFacade.create_place
create_place(d) ==
  IF ~UserExists(d.owner_id) THEN Raise("ValueError")
  ELSE IF d.has_amenities /\ \E a \in d.amenities : ~AmenityExists(a) THEN Raise("ValueError")
  ELSE LET r == PlaceInit(d) IN
       IF r.exc # "none" THEN r
       ELSE IF PlaceRowViolates(r.obj) THEN Raise("IntegrityError")
       ELSE r

\* PlaceList.post: owner_id of the payload must be the authenticated user
OwnerIsActor(d, actor) == d.owner_id = actor.id

\* PlaceList.post / PlaceResource.put: the handler's amenity check
UnknownAmenity(d) == d.has_amenities /\ \E a \in d.amenities : ~AmenityExists(a)

\* PlaceList.post
CreatePlaceEffect(actor, d) ==
  LET r == create_place(d) IN
  IF ~OwnerIsActor(d, actor) THEN Keep(AbortInsideTry(Forbidden))
  ELSE IF UnknownAmenity(d) THEN Keep(AbortInsideTry(BadRequest))
  ELSE IF r.exc # "none" THEN Keep(FacadeErrorStatus(r.exc))
  ELSE [Keep(Created) EXCEPT
          !.places = Put(places, nextId.p, r.obj),
          !.place_amenity = place_amenity \cup
              (IF d.has_amenities THEN {<<nextId.p, a>> : a \in d.amenities} ELSE {}),
          !.new = nextId.p]

\* POST /places/
CreatePlace(actor, d) ==
  /\ nextId.p <= MaxPlaces
  /\ Respond("create_place", None, CreatePlaceEffect(actor, d))
  /\ nextId' = IF CreatePlaceEffect(actor, d).status = Created
               THEN [nextId EXCEPT !.p = @ + 1] ELSE nextId
  /\ UNCHANGED <<tokens, inflight>>

\* HBnBFacade.update_place followed by BaseModel.update
update_place(place_id, d) ==
  IF ~PlaceExists(place_id) THEN ReturnNone
  ELSE IF d.keys \cap {"id", "owner_id", "created_at"} # {} THEN Raise("ValueError")
  ELSE IF d.has_amenities /\ \E a \in d.amenities : ~AmenityExists(a) THEN Raise("ValueError")
  ELSE IF d.title # Absent /\ TitleInvalid(d.title) THEN Raise("ValueError")
  ELSE IF d.price # AbsentNum /\ PriceInvalid(d.price) THEN Raise("ValueError")
  ELSE IF d.latitude # AbsentNum /\ LatitudeInvalid(d.latitude) THEN Raise("ValueError")
  ELSE IF d.longitude # AbsentNum /\ LongitudeInvalid(d.longitude) THEN Raise("ValueError")
  ELSE Return([title |-> IF d.title # Absent THEN Strip(d.title) ELSE places[place_id].title,
               price |-> IF d.price # AbsentNum THEN d.price ELSE places[place_id].price,
               latitude |-> IF d.latitude # AbsentNum THEN d.latitude
                            ELSE places[place_id].latitude,
               longitude |-> IF d.longitude # AbsentNum THEN d.longitude
                             ELSE places[place_id].longitude,
               owner_id |-> places[place_id].owner_id])

\* Place.amenities: the amenities that the rows pa associate with place p
AmenitiesOfPlace(pa, p) == {x[2] : x \in {y \in pa : y[1] = p}}

\* an empty amenities list taken for a missing one: what C11 rules out
AssociationsAfterTruthyUpdate(place_id, d) ==
  IF d.has_amenities /\ d.amenities # {}
  THEN {pa \in place_amenity : pa[1] # place_id} \cup {<<place_id, a>> : a \in d.amenities}
  ELSE place_amenity

\* update_place: an amenities list replaces the place's associations
AssociationsAfterUpdate(place_id, d) ==
  IF d.has_amenities
  THEN {pa \in place_amenity : pa[1] # place_id} \cup {<<place_id, a>> : a \in d.amenities}
  ELSE place_amenity

\* the ownership test left out: what C1 rules out for places
AnyoneCanModifyPlace(place, actor) == TRUE

\* PlaceResource.put / PlaceResource.delete: only the owner or an admin
CanModifyPlace(place, actor) == place.owner_id = actor.id \/ actor.is_admin

\* PlaceResource.put
UpdatePlaceEffect(actor, place_id, d) ==
  LET r == update_place(place_id, d) IN
  IF ~PlaceExists(place_id) THEN Keep(NotFound)
  ELSE IF ~CanModifyPlace(places[place_id], actor) THEN Keep(Forbidden)
  ELSE IF UnknownAmenity(d) THEN Keep(AbortInsideTry(BadRequest))
  ELSE IF r.exc # "none" THEN Keep(FacadeErrorStatus(r.exc))
  ELSE [Keep(OK) EXCEPT
          !.places = Put(places, place_id, r.obj),
          !.place_amenity = AssociationsAfterUpdate(place_id, d)]

\* PUT /places/<place_id>
UpdatePlace(actor, place_id, d) ==
  /\ Respond("update_place", place_id, UpdatePlaceEffect(actor, place_id, d))
  /\ UNCHANGED <<tokens, nextId, inflight>>

\* SQLAlchemyRepository.delete on places: the row and everything that cascades
DeletePlaceEffect(p) ==
  [Keep(NoContent) EXCEPT
     !.places = Drop(places, {p}),
     !.reviews = Drop(reviews, ReviewsOfPlaces({p})),
     !.amenities = NullifyAmenities({p}, {}),
     !.place_amenity = AssociationsWithout({p})]

\* HBnBFacade.delete_place
delete_place(place_id) == IF ~PlaceExists(place_id) THEN Keep(NotFound)
                          ELSE DeletePlaceEffect(place_id)

\* PlaceResource.delete
DeletePlaceRequestEffect(actor, place_id) ==
  IF ~PlaceExists(place_id) THEN Keep(NotFound)
  ELSE IF ~CanModifyPlace(places[place_id], actor) THEN Keep(Forbidden)
  ELSE delete_place(place_id)

\* DELETE /places/<place_id>
DeletePlace(actor, place_id) ==
  /\ Respond("delete_place", place_id, DeletePlaceRequestEffect(actor, place_id))
  /\ UNCHANGED <<tokens, nextId, inflight>>

\* GET /users/<id>, /places/<id>, /reviews/<id>, /amenities/<id>
GetUserStatus(id) == IF UserExists(id) THEN OK ELSE NotFound
GetPlaceStatus(id) == IF PlaceExists(id) THEN OK ELSE NotFound
GetReviewStatus(id) == IF ReviewExists(id) THEN OK ELSE NotFound
GetAmenityStatus(id) == IF AmenityExists(id) THEN OK ELSE NotFound

\* ======================================================================
\* Reviews (a rating is carried in tenths: 35 is the JSON number 3.5)
\* ======================================================================

\* isinstance(value, int) of Review.validate_rating
IsIntRating(v) == v % 10 = 0

\* Review.validate_text
TextInvalid(v) == IsBlank(v)

\* Review.validate_rating: the class of the exception raised, or "none"
validate_rating(v) == IF ~IsIntRating(v) THEN "TypeError"
                      ELSE IF v < 10 \/ v > 50 THEN "ValueError"
                      ELSE "none"

\* Review.__init__: text is validated before rating
ReviewInit(d) ==
  IF d.text # "" /\ TextInvalid(d.text) THEN Raise("ValueError")
  ELSE IF validate_rating(d.rating) # "none" THEN Raise(validate_rating(d.rating))
  ELSE Return([text |-> IF d.text # "" THEN Strip(d.text) ELSE Null,
               rating |-> d.rating, user_id |-> d.user_id, place_id |-> d.place_id])

\* reviews table constraints checked at commit: nullable=False and the
\* unique constraint unique_user_place_review
ReviewRowViolates(row) ==
  \/ row.text = Null
  \/ \E r \in DOMAIN reviews : reviews[r].user_id = row.user_id
                               /\ reviews[r].place_id = row.place_id

\* HBnBFacade.create_review
create_review(d) ==
  IF d.user_id = None \/ ~UserExists(d.user_id) THEN Raise("ValueError")
  ELSE IF d.place_id = None \/ ~PlaceExists(d.place_id) THEN Raise("ValueError")
  ELSE LET r == ReviewInit(d) IN
       IF r.exc # "none" THEN r
       ELSE IF ReviewRowViolates(r.obj) THEN Raise("IntegrityError")
       ELSE r

\* HBnBFacade.get_reviews_by_place
get_reviews_by_place(place_id) ==
  IF ~PlaceExists(place_id) THEN {}
  ELSE {r \in DOMAIN reviews : reviews[r].place_id = place_id}

\* the duplicate lookup finding nothing: what C4 rules out
NeverReviewed(user_id, place_id) == FALSE

\* HBnBFacade.user_has_reviewed_place
user_has_reviewed_place(user_id, place_id) ==
  \E r \in get_reviews_by_place(place_id) : reviews[r].user_id = user_id

\* the own-place test left out: what C3 rules out
NeverOwnPlace(place, actor) == FALSE

\* the own-place test applied to administrators only: what C30 rules out
IsOwnPlaceOfAdmin(place, actor) == place.owner_id = actor.id /\ actor.is_admin

\* ReviewList.post / PlaceReviewList.post: users cannot review their own place
IsOwnPlace(place, actor) == place.owner_id = actor.id

\* ReviewList.post: user_id of the payload must be the authenticated user
AuthorIsActor(d, actor) == d.user_id = actor.id

\* body of the try block shared by the two create routes
CreateReviewBody(actor, d) ==
  LET r == create_review(d) IN
  IF ~PlaceExists(d.place_id) THEN Keep(AbortInsideReviewTry(NotFound))
  ELSE IF IsOwnPlace(places[d.place_id], actor) THEN Keep(AbortInsideReviewTry(Forbidden))
  ELSE IF user_has_reviewed_place(actor.id, d.place_id)
       THEN Keep(AbortInsideReviewTry(Conflict))
  ELSE IF r.exc # "none" THEN Keep(FacadeErrorStatus(r.exc))
  ELSE [Keep(Created) EXCEPT !.reviews = Put(reviews, nextId.r, r.obj), !.new = nextId.r]

\* ReviewList.post
CreateReviewEffect(actor, d) ==
  IF ~AuthorIsActor(d, actor) THEN Keep(AbortInsideReviewTry(Forbidden))
  ELSE CreateReviewBody(actor, d)

\* POST /reviews/
CreateReview(actor, d) ==
  /\ nextId.r <= MaxReviews
  /\ Respond("create_review", d.place_id, CreateReviewEffect(actor, d))
  /\ nextId' = IF CreateReviewEffect(actor, d).status = Created
               THEN [nextId EXCEPT !.r = @ + 1] ELSE nextId
  /\ UNCHANGED <<tokens, inflight>>

\* ----- POST /reviews/ served by concurrent workers: a request that has passed
\* the handler's checks and has not yet reached the facade's insert is in flight

\* workers serving requests at the same time
MaxInflight == 2
Workers == 1..MaxInflight

\* the workers that hold a request in flight
Busy == {req.worker : req \in inflight}

\* ReviewList.post up to the duplicate check: the status of the first check
\* that fails, or OK when all of them pass
ReviewChecksStatus(actor, d) ==
  IF ~AuthorIsActor(d, actor) THEN AbortInsideReviewTry(Forbidden)
  ELSE IF ~PlaceExists(d.place_id) THEN AbortInsideReviewTry(NotFound)
  ELSE IF IsOwnPlace(places[d.place_id], actor) THEN AbortInsideReviewTry(Forbidden)
  ELSE IF user_has_reviewed_place(actor.id, d.place_id) THEN AbortInsideReviewTry(Conflict)
  ELSE OK

\* ReviewList.post from facade.create_review on: the insert and its commit,
\* and the except clauses around it
InsertReviewEffect(d) ==
  LET r == create_review(d) IN
  IF r.exc # "none" THEN Keep(FacadeErrorStatus(r.exc))
  ELSE [Keep(Created) EXCEPT !.reviews = Put(reviews, nextId.r, r.obj), !.new = nextId.r]

\* POST /reviews/, first part: the checks run on the tables as they are now
BeginCreateReview(w, actor, d) ==
  /\ w \notin Busy
  /\ IF ReviewChecksStatus(actor, d) # OK
     THEN /\ Respond("create_review", d.place_id, Keep(ReviewChecksStatus(actor, d)))
          /\ UNCHANGED inflight
     ELSE /\ inflight' = inflight \cup {[worker |-> w, actor |-> actor, d |-> d]}
          /\ UNCHANGED <<users, places, reviews, amenities, place_amenity, last>>
  /\ UNCHANGED <<tokens, nextId>>

\* POST /reviews/, second part: the insert runs on the tables as they are
\* when it is reached
FinishCreateReview(req) ==
  /\ req \in inflight
  /\ nextId.r <= MaxReviews
  /\ Respond("create_review", req.d.place_id, InsertReviewEffect(req.d))
  /\ inflight' = inflight \ {req}
  /\ nextId' = IF InsertReviewEffect(req.d).status = Created
               THEN [nextId EXCEPT !.r = @ + 1] ELSE nextId
  /\ UNCHANGED tokens

\* review_create_model with validate=True: text has min_length 10, rating is
\* an Integer with min 1 and max 5
ReviewCreateSchemaOk(d) ==
  Len(d.text) >= 10 /\ IsIntRating(d.rating) /\ d.rating >= 10 /\ d.rating <= 50

\* PlaceReviewList.post: place_id comes from the URL and user_id from the token
CreatePlaceReviewEffect(actor, place_id, d) ==
  IF ~ReviewCreateSchemaOk(d) THEN Keep(BadRequest)
  ELSE CreateReviewBody(actor, [text |-> d.text, rating |-> d.rating,
                                user_id |-> actor.id, place_id |-> place_id])

\* POST /reviews/places/<place_id>/reviews
CreatePlaceReview(actor, place_id, d) ==
  /\ nextId.r <= MaxReviews
  /\ Respond("create_place_review", place_id,
             CreatePlaceReviewEffect(actor, place_id, d))
  /\ nextId' = IF CreatePlaceReviewEffect(actor, place_id, d).status = Created
               THEN [nextId EXCEPT !.r = @ + 1] ELSE nextId
  /\ UNCHANGED <<tokens, inflight>>

\* HBnBFacade.update_review followed by BaseModel.update; the payload's keys
\* are set in the order the payload lists them (d.order)
update_review(review_id, d) ==
  LET textErr == IF d.text # Absent /\ TextInvalid(d.text) THEN "ValueError" ELSE "none"
      rateErr == IF d.rating # AbsentNum THEN validate_rating(d.rating) ELSE "none"
      first == IF d.order = "text_rating" THEN textErr ELSE rateErr
      second == IF d.order = "text_rating" THEN rateErr ELSE textErr
  IN
  IF ~ReviewExists(review_id) THEN ReturnNone
  ELSE IF d.keys \cap {"id", "user_id", "place_id", "created_at"} # {} THEN Raise("ValueError")
  ELSE IF first # "none" THEN Raise(first)
  ELSE IF second # "none" THEN Raise(second)
  ELSE Return([text |-> IF d.text # Absent THEN Strip(d.text) ELSE reviews[review_id].text,
               rating |-> IF d.rating # AbsentNum THEN d.rating
                          ELSE reviews[review_id].rating,
               user_id |-> reviews[review_id].user_id,
               place_id |-> reviews[review_id].place_id])

\* ReviewResource.put / ReviewResource.delete: only the author or an admin
CanModifyReview(review, actor) == review.user_id = actor.id \/ actor.is_admin

\* ReviewResource.put
UpdateReviewEffect(actor, review_id, d) ==
  LET r == update_review(review_id, d) IN
  IF ~ReviewExists(review_id) THEN Keep(NotFound)
  ELSE IF ~CanModifyReview(reviews[review_id], actor) THEN Keep(Forbidden)
  ELSE IF r.exc # "none" THEN Keep(FacadeErrorStatus(r.exc))
  ELSE [Keep(OK) EXCEPT !.reviews = Put(reviews, review_id, r.obj)]

\* PUT /reviews/<review_id>
UpdateReview(actor, review_id, d) ==
  /\ Respond("update_review", review_id, UpdateReviewEffect(actor, review_id, d))
  /\ UNCHANGED <<tokens, nextId, inflight>>

\* HBnBFacade.delete_review
delete_review(review_id) ==
  IF ~ReviewExists(review_id) THEN Keep(NotFound)
  ELSE [Keep(NoContent) EXCEPT !.reviews = Drop(reviews, {review_id})]

\* ReviewResource.delete
DeleteReviewRequestEffect(actor, review_id) ==
  IF ~ReviewExists(review_id) THEN Keep(NotFound)
  ELSE IF ~CanModifyReview(reviews[review_id], actor) THEN Keep(Forbidden)
  ELSE delete_review(review_id)

\* DELETE /reviews/<review_id>
DeleteReview(actor, review_id) ==
  /\ Respond("delete_review", review_id, DeleteReviewRequestEffect(actor, review_id))
  /\ UNCHANGED <<tokens, nextId, inflight>>

\* ======================================================================
\* Amenities
\* ======================================================================

\* Amenity.validate_name
AmenityNameInvalid(v) == IsBlank(v)

\* HBnBFacade.create_amenity: the row added, or the exception raised
create_amenity(d) ==
  IF d.name = "" THEN Raise("ValueError")
  ELSE IF d.place_id # None /\ ~PlaceExists(d.place_id) THEN Raise("ValueError")
  ELSE IF d.owner_id # None /\ ~UserExists(d.owner_id) THEN Raise("ValueError")
  ELSE IF AmenityNameInvalid(d.name) THEN Raise("ValueError")
  ELSE Return([name |-> Strip(d.name), place_id |-> d.place_id, owner_id |-> d.owner_id])

\* AmenityList.post: only the owner of the place or an admin
CanAddAmenity(place, actor) == place.owner_id = actor.id \/ actor.is_admin

\* AmenityList.post: owner_id is set to the owner of the place
CreateAmenityEffect(actor, d) ==
  LET r == create_amenity([name |-> d.name, place_id |-> d.place_id,
                           owner_id |-> places[d.place_id].owner_id]) IN
  IF ~PlaceExists(d.place_id) THEN Keep(AbortInsideTry(NotFound))
  ELSE IF ~CanAddAmenity(places[d.place_id], actor) THEN Keep(AbortInsideTry(Forbidden))
  ELSE IF r.exc # "none" THEN Keep(FacadeErrorStatus(r.exc))
  ELSE [Keep(Created) EXCEPT
          !.amenities = Put(amenities, nextId.a, r.obj),
          !.place_amenity = place_amenity \cup {<<d.place_id, nextId.a>>},
          !.new = nextId.a]

\* POST /amenities/
CreateAmenity(actor, d) ==
  /\ nextId.a <= MaxAmenities
  /\ Respond("create_amenity", d.place_id, CreateAmenityEffect(actor, d))
  /\ nextId' = IF CreateAmenityEffect(actor, d).status = Created
               THEN [nextId EXCEPT !.a = @ + 1] ELSE nextId
  /\ UNCHANGED <<tokens, inflight>>

\* HBnBFacade.update_amenity: BaseModel.update sets name, place_id and, when
\* the payload carries it, owner_id
update_amenity(amenity_id, d) ==
  IF ~AmenityExists(amenity_id) THEN ReturnNone
  ELSE IF d.keys \cap {"id", "created_at"} # {} THEN Raise("ValueError")
  ELSE IF AmenityNameInvalid(d.name) THEN Raise("ValueError")
  ELSE Return([name |-> Strip(d.name), place_id |-> d.place_id,
               owner_id |-> IF d.owner_id # None THEN d.owner_id
                            ELSE amenities[amenity_id].owner_id])

\* update_amenity: the association moves when place_id changes
AssociationsAfterMove(amenity_id, old_place_id, new_place_id) ==
  IF new_place_id # None /\ new_place_id # old_place_id
  THEN {pa \in place_amenity : pa # <<old_place_id, amenity_id>>}
       \cup (IF PlaceExists(new_place_id) THEN {<<new_place_id, amenity_id>>} ELSE {})
  ELSE place_amenity

\* AmenityResource.put / AmenityResource.delete: only the amenity's owner or an admin
CanModifyAmenity(amenity, actor) == amenity.owner_id = actor.id \/ actor.is_admin

\* AmenityResource.put
UpdateAmenityEffect(actor, amenity_id, d) ==
  LET r == update_amenity(amenity_id, d) IN
  IF ~AmenityExists(amenity_id) THEN Keep(NotFound)
  ELSE IF ~CanModifyAmenity(amenities[amenity_id], actor) THEN Keep(Forbidden)
  ELSE IF ~PlaceExists(d.place_id) THEN Keep(AbortInsideTry(NotFound))
  ELSE IF ~CanAddAmenity(places[d.place_id], actor) THEN Keep(AbortInsideTry(Forbidden))
  ELSE IF r.exc # "none" THEN Keep(FacadeErrorStatus(r.exc))
  ELSE [Keep(OK) EXCEPT
          !.amenities = Put(amenities, amenity_id, r.obj),
          !.place_amenity = AssociationsAfterMove(amenity_id,
                               amenities[amenity_id].place_id, d.place_id)]

\* PUT /amenities/<amenity_id>
UpdateAmenity(actor, amenity_id, d) ==
  /\ Respond("update_amenity", amenity_id, UpdateAmenityEffect(actor, amenity_id, d))
  /\ UNCHANGED <<tokens, nextId, inflight>>

\* HBnBFacade.delete_amenity: the row and its place_amenity rows
delete_amenity(amenity_id) ==
  IF ~AmenityExists(amenity_id) THEN Keep(NotFound)
  ELSE [Keep(NoContent) EXCEPT
          !.amenities = Drop(amenities, {amenity_id}),
          !.place_amenity = {pa \in place_amenity : pa[2] # amenity_id}]

\* AmenityResource.delete
DeleteAmenityRequestEffect(actor, amenity_id) ==
  IF ~AmenityExists(amenity_id) THEN Keep(NotFound)
  ELSE IF ~CanModifyAmenity(amenities[amenity_id], actor) THEN Keep(Forbidden)
  ELSE delete_amenity(amenity_id)

\* DELETE /amenities/<amenity_id>
DeleteAmenity(actor, amenity_id) ==
  /\ Respond("delete_amenity", amenity_id, DeleteAmenityRequestEffect(actor, amenity_id))
  /\ UNCHANGED <<tokens, nextId, inflight>>

\* ======================================================================
\* Representations returned by the routes (to_dict)
\* ======================================================================

\* BaseModel.to_dict: every column of the row, the id among them
to_dict(row, id) == [k \in DOMAIN row \cup {"id"} |-> IF k = "id" THEN id ELSE row[k]]

\* the password column left in the representation: what C22 rules out
UserToDictWithPassword(u) == to_dict(users[u], u)

\* User.to_dict: the columns without the password
UserToDict(u) ==
  LET data == to_dict(users[u], u) IN [k \in DOMAIN data \ {"password"} |-> data[k]]

\* Place.to_dict: the owner summary nested in a place
OwnerSummary(owner_id) ==
  IF UserExists(owner_id)
  THEN [id |-> owner_id, first_name |-> users[owner_id].first_name,
        last_name |-> users[owner_id].last_name, email |-> users[owner_id].email]
  ELSE [id |-> owner_id, first_name |-> Null, last_name |-> Null, email |-> Null]

\* Place.to_dict: owner_id is replaced by the owner summary; the amenities
\* and the reviews of the place are listed
PlaceToDict(p) ==
  LET data == to_dict(places[p], p) IN
  [k \in (DOMAIN data \ {"owner_id"}) \cup {"owner", "amenities", "reviews"} |->
     CASE k = "owner" -> OwnerSummary(places[p].owner_id)
       [] k = "amenities" ->
            {[id |-> a, name |-> amenities[a].name] : a \in AmenitiesOfPlace(place_amenity, p)}
       [] k = "reviews" ->
            {[id |-> r, text |-> reviews[r].text, rating |-> reviews[r].rating,
              user_id |-> reviews[r].user_id] : r \in ReviewsOfPlaces({p})}
       [] OTHER -> data[k]]

\* Review.to_dict: the author summary nested in a review
AuthorSummary(user_id) ==
  IF UserExists(user_id)
  THEN [id |-> user_id, first_name |-> users[user_id].first_name,
        last_name |-> users[user_id].last_name]
  ELSE [id |-> user_id, first_name |-> Null, last_name |-> Null]

\* Review.to_dict: user_id and place_id are replaced by summaries
ReviewToDict(r) ==
  LET data == to_dict(reviews[r], r) IN
  [k \in (DOMAIN data \ {"user_id", "place_id"}) \cup {"user", "place"} |->
     CASE k = "user" -> AuthorSummary(reviews[r].user_id)
       [] k = "place" ->
            IF PlaceExists(reviews[r].place_id)
            THEN [id |-> reviews[r].place_id, title |-> places[reviews[r].place_id].title]
            ELSE [id |-> reviews[r].place_id, title |-> Null]
       [] OTHER -> data[k]]

\* PlaceReviewList.get: what the facade hands back, a list in every case
ListPlaceReviewsResult(place_id) == Return(get_reviews_by_place(place_id))

\* PlaceReviewList.get: 404 only when the facade hands back None
ListPlaceReviewsStatus(place_id) ==
  IF ListPlaceReviewsResult(place_id).exc = "None" THEN NotFound ELSE OK

\* ======================================================================
\* Initial states and specifications
\* ======================================================================

EmptyFn == [x \in {} |-> x]

\* ----- identifiers that requests may name
UserIds == 1..MaxUsers
PlaceIds == 1..MaxPlaces
ReviewIds == 1..MaxReviews
AmenityIds == 1..MaxAmenities

\* create_admin.py seeds an administrator
AdminRow == [first_name |-> "Root", last_name |-> "Admin", email |-> "admin@x.com",
             password |-> HashPassword("string"), is_admin |-> TRUE]

\* a user registered through POST /users/
MemberRow(u) == [first_name |-> "Al", last_name |-> "Li",
                 email |-> IF u = 2 THEN "a@x.com" ELSE "b@x.com",
                 password |-> HashPassword("secret1"), is_admin |-> FALSE]

InitLast == [op |-> "init", target |-> None, status |-> OK, gone |-> NothingGone]

\* The API starts on the database left by create_admin.py (or an empty one);
\* nobody is logged in
InitUsers ==
  /\ users \in {EmptyFn, [u \in {1} |-> AdminRow]}
  /\ places = EmptyFn
  /\ reviews = EmptyFn
  /\ amenities = EmptyFn
  /\ place_amenity = {}
  /\ tokens = {}
  /\ nextId = [u |-> IF users = EmptyFn THEN 1 ELSE 2, p |-> 1, r |-> 1, a |-> 1]
  /\ last = InitLast
  /\ inflight = {}

\* A database with the administrator and two registered members, each of
\* them logged in: the state after create_admin.py, two POST /users/ and
\* three POST /auth/login
InitMembers ==
  /\ users = [u \in 1..3 |-> IF u = 1 THEN AdminRow ELSE MemberRow(u)]
  /\ places = EmptyFn
  /\ reviews = EmptyFn
  /\ amenities = EmptyFn
  /\ place_amenity = {}
  /\ tokens = {[id |-> u, is_admin |-> (u = 1)] : u \in 1..3}
  /\ nextId = [u |-> 4, p |-> 1, r |-> 1, a |-> 1]
  /\ last = InitLast
  /\ inflight = {}

\* ----- payloads of the requests explored
NoKeys == {}
UserPayloads == [first_name : {"Al"}, last_name : {"Li"},
                 email : {"a@x.com", "A@x.com", "a@X.com", "bad"}, password : {"secret1"},
                 is_admin : {FALSE}]
SelfUpdatePayloads == [first_name : {"Bo"}, last_name : {"Li"},
                       email : {"a@x.com", "A@x.com", "admin@x.com"},
                       password : {"secret1", "secret2", "string"},
                       is_admin : {Absent, "true"}, keys : {NoKeys, {"id"}}]
AdminUpdatePayloads == [first_name : {Absent, "Bo"}, last_name : {Absent},
                        email : {Absent, "a@x.com", "a@X.com"}, password : {Absent},
                        is_admin : {Absent}, keys : {NoKeys, {"created_at"}}]
Credentials == [email : {"a@x.com", "A@x.com", "admin@x.com"}, password : {"secret1", "string"}]

NoAmenityList == {[has_amenities |-> FALSE, amenities |-> {}]}
AmenityLists == NoAmenityList \cup
                {[has_amenities |-> TRUE, amenities |-> A] : A \in SUBSET AmenityIds}
PlacePayloads(lists) ==
  {[title |-> "T1", price |-> 100, latitude |-> 45, longitude |-> 2,
    owner_id |-> o, has_amenities |-> l.has_amenities, amenities |-> l.amenities] :
      o \in UserIds, l \in lists}
PlaceUpdatePayloads(lists) ==
  {[title |-> t, price |-> AbsentNum, latitude |-> AbsentNum, longitude |-> AbsentNum,
    has_amenities |-> l.has_amenities, amenities |-> l.amenities, keys |-> k] :
      t \in {Absent, "T1", "T2"}, l \in lists, k \in {NoKeys, {"id"}, {"owner_id"}}}
Ratings == {0, 35, 40, 60}
Texts == {"ok", "Great place"}
ReviewPayloads == [text : Texts, rating : Ratings, user_id : UserIds, place_id : PlaceIds]
PlaceReviewPayloads == [text : Texts, rating : Ratings]
ReviewUpdatePayloads == [text : {Absent, "", "Fine"}, rating : {AbsentNum, 20, 25, 40, 60},
                         keys : {NoKeys, {"user_id"}, {"place_id"}},
                         order : {"text_rating", "rating_text"}]
AmenityPayloads == [name : {"WiFi", "wifi"}, place_id : PlaceIds]
AmenityUpdatePayloads == [name : {"WiFi", "wifi", "Pool"}, place_id : PlaceIds, owner_id : {None},
                          keys : {NoKeys, {"id"}}]

\* ----- the requests sent in the runs explored: a part of the payloads above.
\* A request that is refused leaves every table as it was, so the tables
\* reached are those reached with every payload; the properties range over
\* all the payloads in each state reached. The members create places and
\* reviews under their own id; everybody sends updates and deletions of every
\* place and review; the administrator moderates, and deletes the
\* accounts of members (the deletion of an administrator is explored by
\* NextUsers).
SentSelfUpdates ==
  {d \in SelfUpdatePayloads : d.email = "a@x.com" /\ d.password \in {"secret1", "secret2"}
                              /\ d.is_admin = Absent}
SentPlaces(t, lists) == {d \in PlacePayloads(lists) : d.owner_id = t.id /\ ~t.is_admin}
SentPlaceUpdates(lists) ==
  {d \in PlaceUpdatePayloads(lists) : d.title = "T2" /\ d.keys = NoKeys}
SentReviews(t) ==
  {d \in ReviewPayloads : d.text = "Great place" /\ d.rating = 40 /\ d.user_id = t.id
                          /\ ~t.is_admin}
SentPlaceReviews == {d \in PlaceReviewPayloads : d.text = "Great place" /\ d.rating = 40}
Members == {u \in DOMAIN users : ~users[u].is_admin}
OwnPlaces(t) == {p \in DOMAIN places : places[p].owner_id = t.id}
OwnReviews(t) == {r \in DOMAIN reviews : reviews[r].user_id = t.id}
Admins == {t \in tokens : t.is_admin}
SentAmenityCreations == {d \in AmenityPayloads : d.name = "WiFi"}
SentAmenityLists == {l \in AmenityLists : l.amenities \in {{}, {1}}}
SentAmenityListUpdates ==
  {d \in PlaceUpdatePayloads(SentAmenityLists) : d.title = Absent /\ d.keys = NoKeys}
SentAmenityUpdates == {d \in AmenityUpdatePayloads : d.name = "WiFi" /\ d.keys = NoKeys}
SentReviewUpdates ==
  {d \in ReviewUpdatePayloads : d.text = Absent /\ d.rating \in {20, 25, 60}
                                 /\ d.order = "text_rating" /\ d.keys = NoKeys}

\* ----- requests on users
NextUsers ==
  \/ \E d \in UserPayloads : CreateUser(d)
  \/ \E c \in Credentials : Login(c.email, c.password)
  \/ \E t \in tokens, u \in UserIds, d \in SentSelfUpdates : UpdateUserSelf(t, u, d)
  \/ \E t \in tokens, u \in UserIds, d \in AdminUpdatePayloads : UpdateUserAdmin(t, u, d)
  \/ \E t \in tokens, u \in UserIds : DeleteUser(t, u)

SpecUsers == InitUsers /\ [][NextUsers]_vars

\* ----- requests on places and reviews, and the deletion of users
NextReviews ==
  \/ \E t \in tokens, u \in Members : DeleteUser(t, u)
  \/ \E t \in tokens : \E d \in SentPlaces(t, NoAmenityList) : CreatePlace(t, d)
  \/ \E t \in tokens, p \in DOMAIN places : DeletePlace(t, p)
  \/ \E t \in tokens : \E d \in SentReviews(t) : CreateReview(t, d)
  \/ \E t \in tokens, p \in DOMAIN places, d \in SentPlaceReviews : CreatePlaceReview(t, p, d)
  \/ \E t \in tokens, r \in DOMAIN reviews : DeleteReview(t, r)

SpecReviews == InitMembers /\ [][NextReviews]_vars

\* ----- creations and updates of places and reviews, sent by everybody
NextEdits ==
  \/ \E t \in tokens : \E d \in SentPlaces(t, NoAmenityList) : CreatePlace(t, d)
  \/ \E t \in tokens, p \in DOMAIN places, d \in SentPlaceUpdates(NoAmenityList) :
        UpdatePlace(t, p, d)
  \/ \E t \in tokens : \E d \in SentReviews(t) : CreateReview(t, d)
  \/ \E t \in tokens, r \in DOMAIN reviews, d \in SentReviewUpdates : UpdateReview(t, r, d)

SpecEdits == InitMembers /\ [][NextEdits]_vars

\* ----- requests on amenities, the places they belong to, and the deletion of users
NextAmenities ==
  \/ \E t \in tokens, u \in Members : DeleteUser(t, u)
  \/ \E t \in tokens : \E d \in SentPlaces(t, SentAmenityLists) : CreatePlace(t, d)
  \/ \E t \in tokens, p \in DOMAIN places : DeletePlace(t, p)
  \/ \E t \in tokens, d \in SentAmenityCreations : CreateAmenity(t, d)
  \/ \E t \in tokens, a \in DOMAIN amenities, d \in SentAmenityUpdates : UpdateAmenity(t, a, d)
  \/ \E t \in tokens, a \in DOMAIN amenities : DeleteAmenity(t, a)

SpecAmenities == InitMembers /\ [][NextAmenities]_vars

\* ----- requests on places that carry amenity lists, and the amenities they name
NextPlaceAmenities ==
  \/ \E t \in tokens : \E d \in SentPlaces(t, SentAmenityLists) : CreatePlace(t, d)
  \/ \E t \in tokens : \E p \in OwnPlaces(t), d \in SentAmenityListUpdates :
        UpdatePlace(t, p, d)
  \/ \E t \in tokens, p \in DOMAIN places : DeletePlace(t, p)
  \/ \E t \in tokens, d \in SentAmenityCreations : CreateAmenity(t, d)

SpecPlaceAmenities == InitMembers /\ [][NextPlaceAmenities]_vars

\* ----- registrations on an empty database, whose payload may carry is_admin
InitEmpty == InitUsers /\ users = EmptyFn

RegistrationPayloads == {[d EXCEPT !.is_admin = v] : d \in UserPayloads, v \in BOOLEAN}

NextRegistration ==
  \/ \E d \in RegistrationPayloads : CreateUser(d)
  \/ \E c \in Credentials : Login(c.email, c.password)
  \/ \E t \in tokens, u \in UserIds : DeleteUser(t, u)

SpecRegistration == InitEmpty /\ [][NextRegistration]_vars

\* ----- the requests that write to the four tables, each sent by an actor
\* the handler allows: a host (the member a@x.com) on places and their
\* amenities, a guest (the member b@x.com) on reviews, the administrator on
\* users and on the amenities of every place
Hosts == {t \in tokens : t.id \in DOMAIN users /\ users[t.id].email = "a@x.com"}
Guests == {t \in tokens : t.id \in DOMAIN users /\ users[t.id].email = "b@x.com"}

NextIntegrity ==
  \/ \E t \in Admins, u \in Members : DeleteUser(t, u)
  \/ \E t \in Hosts : \E d \in SentPlaces(t, SentAmenityLists) : CreatePlace(t, d)
  \/ \E t \in Hosts : \E p \in OwnPlaces(t), d \in SentAmenityListUpdates :
        UpdatePlace(t, p, d)
  \/ \E t \in Hosts : \E p \in OwnPlaces(t) : DeletePlace(t, p)
  \/ \E t \in Guests : \E d \in SentReviews(t) : CreateReview(t, d)
  \/ \E t \in Guests : \E r \in OwnReviews(t) : DeleteReview(t, r)
  \/ \E t \in Hosts : \E p \in OwnPlaces(t) :
        CreateAmenity(t, [name |-> "WiFi", place_id |-> p])
  \/ \E t \in Admins, a \in DOMAIN amenities, d \in SentAmenityUpdates : UpdateAmenity(t, a, d)
  \/ \E t \in Admins, a \in DOMAIN amenities : DeleteAmenity(t, a)

SpecIntegrity == InitMembers /\ [][NextIntegrity]_vars

\* ----- creations of places, and creations of reviews served concurrently
NextConcurrent ==
  \/ \E t \in tokens : \E d \in SentPlaces(t, NoAmenityList) : CreatePlace(t, d)
  \/ \E w \in Workers, t \in tokens : \E d \in SentReviews(t) : BeginCreateReview(w, t, d)
  \/ \E req \in inflight : FinishCreateReview(req)

SpecConcurrent == InitMembers /\ [][NextConcurrent]_vars

\* ======================================================================
\* Properties
\* ======================================================================

\* the tables after a request are the tables before it
Unchanged(eff) ==
  <<eff.users, eff.places, eff.reviews, eff.amenities, eff.place_amenity>> = store

\* the request was answered st and wrote nothing
Refused(eff, st) == eff.status = st /\ Unchanged(eff)

C2_ForeignOwnerIsForbidden ==
  \A t \in tokens, d \in PlacePayloads(AmenityLists) :
    d.owner_id # t.id => Refused(CreatePlaceEffect(t, d), Forbidden)

\* C3 as stated: a review of the actor's own place is answered 403 Forbidden
\* for every rating and text, on POST /reviews/ and on
\* POST /reviews/places/<place_id>/reviews
C3_OwnPlaceForbiddenForEveryPayload ==
  \A t \in tokens, p \in DOMAIN places : places[p].owner_id = t.id =>
    /\ \A d \in ReviewPayloads :
         d.place_id = p => Refused(CreateReviewEffect(t, d), Forbidden)
    /\ \A d \in PlaceReviewPayloads :
         Refused(CreatePlaceReviewEffect(t, p, d), Forbidden)

\* C3 amended: a review of the actor's own place stores nothing; it is
\* answered 403 Forbidden for every rating and text on POST /reviews/, and on
\* the place-scoped route for every payload that passes the route's schema
\* (integer rating 1..5, text of 10 characters or more), the other payloads
\* being answered 400 before the ownership rule is reached
C3_OwnPlaceForbiddenAfterSchema ==
  \A t \in tokens, p \in DOMAIN places : places[p].owner_id = t.id =>
    /\ \A d \in ReviewPayloads :
         d.place_id = p => Refused(CreateReviewEffect(t, d), Forbidden)
    /\ \A d \in PlaceReviewPayloads :
         Refused(CreatePlaceReviewEffect(t, p, d),
                 IF ReviewCreateSchemaOk(d) THEN Forbidden ELSE BadRequest)

\* C3 witness: the place-scoped route answered 403 for a place that exists
C3_OwnPlaceWasRefused ==
  /\ last.op = "create_place_review"
  /\ last.status = Forbidden
  /\ last.target \in DOMAIN places

C5_DuplicateEmailIsConflict ==
  \A d \in UserPayloads :
    (\E u \in DOMAIN users : users[u].email = d.email)
       => Refused(CreateUserEffect(d), Conflict)

\* C6: creating a user whose email differs only in letter case from an
\* existing user's email (A@x.com after a@x.com) is answered 409 Conflict
C6_CaseVariantEmailIsConflict ==
  \A d \in UserPayloads :
    (\E u \in DOMAIN users : users[u].email # d.email
                             /\ LowerEmail(users[u].email) = LowerEmail(d.email))
       => Refused(CreateUserEffect(d), Conflict)

\* the statuses of the four failure kinds of the API
TypedFailures == {BadRequest, Forbidden, NotFound, Conflict}

\* C7: no two users have the same email, and an administrator's update that
\* sets a user's email to the email of another user is answered with one of
\* the typed failures and changes no field of any user
C7_EmailsStayUnique ==
  /\ \A u1, u2 \in DOMAIN users : users[u1].email = users[u2].email => u1 = u2
  /\ \A t \in tokens, u \in DOMAIN users, d \in AdminUpdatePayloads :
       (t.is_admin /\ d.email # Absent
        /\ \E o \in DOMAIN users : o # u /\ users[o].email = NormalizeEmail(d.email))
          => LET e == UpdateUserAdminEffect(t, u, d)
             IN e.status \in TypedFailures /\ Unchanged(e)

\* C8: an update whose payload carries id or created_at is answered
\* 400 and applies none of its other fields, on the self-service route and on
\* the administrator's route of users
C8_ProtectedKeysAreRejected ==
  \A t \in tokens, u \in DOMAIN users :
    /\ \A d \in SelfUpdatePayloads :
         (t.id = u /\ CredentialsMatch(users[u], d) /\ d.keys # {})
            => Refused(UpdateUserSelfEffect(t, u, d), BadRequest)
    /\ \A d \in AdminUpdatePayloads :
         (t.is_admin /\ d.keys # {})
            => Refused(UpdateUserAdminEffect(t, u, d), BadRequest)

\* C9, first part: the step of a successful DELETE /users/<u> removes u, every
\* place owned by u, every review of those places and every review written by u
DeleteUserCascades ==
  (last'.op = "delete_user" /\ last'.status = OK) =>
    LET u == last'.target IN
    /\ u \notin DOMAIN users'
    /\ \A p \in DOMAIN places : places[p].owner_id = u => p \notin DOMAIN places'
    /\ \A r \in DOMAIN reviews :
         (reviews[r].user_id = u
          \/ \E p \in DOMAIN places : places[p].owner_id = u /\ reviews[r].place_id = p)
            => r \notin DOMAIN reviews'

\* C9, second part: an id that was given out and is no longer in its table
\* never comes back
StayAbsent ==
  /\ \A u \in 1..(nextId.u - 1) : u \notin DOMAIN users => u \notin DOMAIN users'
  /\ \A p \in 1..(nextId.p - 1) : p \notin DOMAIN places => p \notin DOMAIN places'
  /\ \A r \in 1..(nextId.r - 1) : r \notin DOMAIN reviews => r \notin DOMAIN reviews'

C10_DeletePlaceKeepsAmenities ==
  /\ \A pa \in place_amenity : pa[1] \in DOMAIN places
  /\ \A t \in tokens, p \in DOMAIN places :
       LET e == DeletePlaceRequestEffect(t, p) IN
       e.status = NoContent =>
         /\ DOMAIN e.amenities = DOMAIN amenities
         /\ \A a \in DOMAIN amenities : e.amenities[a].name = amenities[a].name
         /\ \A pa \in e.place_amenity : pa[1] # p

\* C10 witness: a place that had an amenity was deleted and the amenity is
\* still stored
C10_PlaceWithAmenityDeleted ==
  /\ last.op = "delete_place"
  /\ last.status = NoContent
  /\ last.gone.places = {last.target}
  /\ \E pa \in last.gone.place_amenity : pa[1] = last.target /\ pa[2] \in DOMAIN amenities

\* C11: a successful update of a place whose payload carries an amenities
\* list leaves the place with exactly the amenities of the list (none for the
\* empty list); one without the amenities key leaves the place's amenities as
\* they were; the amenities of the other places are untouched either way
C11_UpdateReplacesAmenities ==
  \A t \in tokens, p \in DOMAIN places, d \in PlaceUpdatePayloads(AmenityLists) :
    LET e == UpdatePlaceEffect(t, p, d) IN
    e.status = OK =>
      /\ AmenitiesOfPlace(e.place_amenity, p) =
           IF d.has_amenities THEN d.amenities ELSE AmenitiesOfPlace(place_amenity, p)
      /\ \A q \in DOMAIN places \ {p} :
           AmenitiesOfPlace(e.place_amenity, q) = AmenitiesOfPlace(place_amenity, q)

\* C11 witness: an update with the empty list took the amenity of a place
\* away, and the amenity is still stored
C11_AmenitiesWereCleared ==
  /\ last.op = "update_place"
  /\ last.status = OK
  /\ \E pa \in last.gone.place_amenity : pa[1] = last.target /\ pa[2] \in DOMAIN amenities
  /\ AmenitiesOfPlace(place_amenity, last.target) = {}

\* C12: a creation or an update of a place, by an actor allowed to make it,
\* whose amenities list names an id that is not a stored amenity is answered
\* 404 Not Found and writes nothing
C12_UnknownAmenityIsNotFound ==
  \A t \in tokens :
    /\ \A d \in PlacePayloads(AmenityLists) :
         (OwnerIsActor(d, t) /\ UnknownAmenity(d))
            => Refused(CreatePlaceEffect(t, d), NotFound)
    /\ \A p \in DOMAIN places, d \in PlaceUpdatePayloads(AmenityLists) :
         (CanModifyPlace(places[p], t) /\ UnknownAmenity(d))
            => Refused(UpdatePlaceEffect(t, p, d), NotFound)

\* C13: a self-update (the actor's id is the target's) whose payload email is
\* not the stored email, or whose payload password does not verify against
\* the stored hash, is answered 401 and leaves every field of every user as
\* it was
C13_WrongCredentialsChangeNothing ==
  \A t \in tokens, d \in SelfUpdatePayloads :
    (t.id \in DOMAIN users
     /\ (users[t.id].email # d.email \/ ~verify_password(users[t.id], d.password)))
       => Refused(UpdateUserSelfEffect(t, t.id, d), Unauthorized)

\* C13 witness: a stored user's update of their own profile came back 401
C13_SelfUpdateWasRefused ==
  /\ last.op = "update_user_self"
  /\ last.status = Unauthorized
  /\ last.target \in DOMAIN users
  /\ \E t \in tokens : t.id = last.target

\* C14: a successful self-update changes only first_name and last_name of the
\* user: the user's email, password hash and is_admin are as before whatever
\* else the payload carries, no user appears or disappears, and every other
\* user and every other table is unchanged
C14_SelfUpdateChangesNamesOnly ==
  \A t \in tokens, u \in DOMAIN users, d \in SelfUpdatePayloads :
    LET e == UpdateUserSelfEffect(t, u, d) IN
    e.status = OK =>
      /\ DOMAIN e.users = DOMAIN users
      /\ e.users[u] = [users[u] EXCEPT !.first_name = Strip(d.first_name),
                                       !.last_name = Strip(d.last_name)]
      /\ \A o \in DOMAIN users \ {u} : e.users[o] = users[o]
      /\ <<e.places, e.reviews, e.amenities, e.place_amenity>> =
           <<places, reviews, amenities, place_amenity>>

\* C14 witness: a user's update of their own profile succeeded and the new
\* first name is stored
C14_SelfUpdateApplied ==
  /\ last.op = "update_user_self"
  /\ last.status = OK
  /\ last.target \in DOMAIN users
  /\ users[last.target].first_name = "Bo"

\* C15: a deletion of a user requested by an actor who is not an admin, the
\* user themself included, is answered 403 Forbidden and leaves the user,
\* their places, their reviews and every other row in the store; a deletion
\* that succeeds was requested by an admin
C15_OnlyAdminsDeleteUsers ==
  \A t \in tokens, u \in UserIds :
    LET e == DeleteUserRequestEffect(t, u) IN
    /\ ~t.is_admin => Refused(e, Forbidden)
    /\ e.status = OK => t.is_admin

\* C15 witness: the deletion of a user who owns a place and wrote a review
\* came back 403, and the three rows are stored
C15_MemberDeletionWasRefused ==
  /\ last.op = "delete_user"
  /\ last.status = Forbidden
  /\ last.target \in DOMAIN users
  /\ PlacesOfUser(last.target) # {}
  /\ ReviewsOfUser(last.target) # {}

\* C16: a creation of an amenity for a stored place, and an update or a
\* deletion of a stored amenity, requested by an actor who is not an admin
\* (the owner of the place included) is answered 403 Forbidden and changes
\* nothing
C16_OnlyAdminsManageAmenities ==
  \A t \in tokens : ~t.is_admin =>
    /\ \A d \in AmenityPayloads :
         d.place_id \in DOMAIN places => Refused(CreateAmenityEffect(t, d), Forbidden)
    /\ \A a \in DOMAIN amenities :
         /\ Refused(DeleteAmenityRequestEffect(t, a), Forbidden)
         /\ \A d \in AmenityUpdatePayloads :
              Refused(UpdateAmenityEffect(t, a, d), Forbidden)

\* str.lower() of an amenity name: what a comparison ignoring case sees
LowerName(n) == CASE n = "WiFi" -> "wifi"
                  [] n = "Pool" -> "pool"
                  [] OTHER -> n

\* C17: no two stored amenities have names that are equal ignoring letter
\* case, and a creation or a rename that would produce such a pair is
\* answered 409 Conflict and changes nothing
C17_AmenityNamesAreUnique ==
  /\ \A a1, a2 \in DOMAIN amenities :
       LowerName(amenities[a1].name) = LowerName(amenities[a2].name) => a1 = a2
  /\ \A t \in tokens, d \in AmenityPayloads :
       (t.is_admin /\ d.place_id \in DOMAIN places
        /\ \E a \in DOMAIN amenities : LowerName(amenities[a].name) = LowerName(d.name))
          => Refused(CreateAmenityEffect(t, d), Conflict)
  /\ \A t \in tokens, a \in DOMAIN amenities, d \in AmenityUpdatePayloads :
       (t.is_admin /\ d.place_id \in DOMAIN places
        /\ \E o \in DOMAIN amenities \ {a} :
              LowerName(amenities[o].name) = LowerName(d.name))
          => Refused(UpdateAmenityEffect(t, a, d), Conflict)

\* C18: an update or a deletion of a user, place, review or amenity whose id
\* is not stored is answered 404 Not Found for every actor, admin or not, and
\* a 403 Forbidden is only ever the answer for a target that is stored
C18_ExistenceBeforeAuthorization ==
  \A t \in tokens :
    /\ \A u \in UserIds \ DOMAIN users :
         /\ DeleteUserRequestEffect(t, u).status = NotFound
         /\ \A d \in SelfUpdatePayloads : UpdateUserSelfEffect(t, u, d).status = NotFound
         /\ \A d \in AdminUpdatePayloads : UpdateUserAdminEffect(t, u, d).status = NotFound
    /\ \A p \in PlaceIds \ DOMAIN places :
         /\ DeletePlaceRequestEffect(t, p).status = NotFound
         /\ \A d \in PlaceUpdatePayloads(AmenityLists) :
              UpdatePlaceEffect(t, p, d).status = NotFound
    /\ \A r \in ReviewIds \ DOMAIN reviews :
         /\ DeleteReviewRequestEffect(t, r).status = NotFound
         /\ \A d \in ReviewUpdatePayloads : UpdateReviewEffect(t, r, d).status = NotFound
    /\ \A a \in AmenityIds \ DOMAIN amenities :
         /\ DeleteAmenityRequestEffect(t, a).status = NotFound
         /\ \A d \in AmenityUpdatePayloads : UpdateAmenityEffect(t, a, d).status = NotFound

\* C19: no request on a route of places, amenities, reviews or users is
\* answered 500: what a rule rejects comes back as 400, 401, 403, 404 or 409
C19_NoInternalError ==
  \A t \in tokens :
    /\ \A d \in PlacePayloads(AmenityLists) : CreatePlaceEffect(t, d).status # InternalError
    /\ \A p \in PlaceIds, d \in PlaceUpdatePayloads(AmenityLists) :
         UpdatePlaceEffect(t, p, d).status # InternalError
    /\ \A d \in ReviewPayloads : CreateReviewEffect(t, d).status # InternalError
    /\ \A p \in PlaceIds, d \in PlaceReviewPayloads :
         CreatePlaceReviewEffect(t, p, d).status # InternalError
    /\ \A r \in ReviewIds, d \in ReviewUpdatePayloads :
         UpdateReviewEffect(t, r, d).status # InternalError
    /\ \A d \in AmenityPayloads :
         d.place_id \in DOMAIN places => CreateAmenityEffect(t, d).status # InternalError
    /\ \A a \in AmenityIds, d \in AmenityUpdatePayloads :
         UpdateAmenityEffect(t, a, d).status # InternalError
    /\ \A d \in UserPayloads : CreateUserEffect(d).status # InternalError
    /\ \A u \in UserIds, d \in AdminUpdatePayloads :
         UpdateUserAdminEffect(t, u, d).status # InternalError

\* the ratings of C20, in tenths: 0, 1, 3, 3.5, 5 and 6
RatingsTried == {0, 10, 30, 35, 50, 60}

\* C20: on POST /reviews/ and PUT /reviews/<id>, for an actor allowed to make
\* the request and a payload that is valid but for its rating: an integer
\* rating from 1 to 5 is accepted and stored as given; an integer below 1 or
\* above 5, and a number that is not an integer such as 3.5, are answered
\* 400 and nothing is stored or changed
C20_RatingIsAnIntegerFromOneToFive ==
  \A t \in tokens, v \in RatingsTried :
    LET valid == IsIntRating(v) /\ v >= 10 /\ v <= 50 IN
    /\ \A p \in DOMAIN places :
         (t.id \in DOMAIN users /\ ~IsOwnPlace(places[p], t)
          /\ ~user_has_reviewed_place(t.id, p))
            => LET e == CreateReviewEffect(t, [text |-> "Great place", rating |-> v,
                                               user_id |-> t.id, place_id |-> p])
               IN IF valid
                  THEN e.status = Created /\ e.reviews[e.new].rating = v
                  ELSE Refused(e, BadRequest)
    /\ \A r \in DOMAIN reviews :
         CanModifyReview(reviews[r], t)
            => LET e == UpdateReviewEffect(t, r, [text |-> Absent, rating |-> v, keys |-> NoKeys,
                                                  order |-> "text_rating"])
               IN IF valid
                  THEN e.status = OK /\ e.reviews[r].rating = v
                  ELSE Refused(e, BadRequest)

\* the empty string and a string of white space only
BlankStrings == {"", " "}

\* C21: a creation of a user, a place or a review by an actor allowed to make
\* it, whose payload is valid but for a first_name, last_name, title or text
\* that is empty or white space only, is answered 400 and stores nothing
C21_BlankStringsAreInvalidInput ==
  \A s \in BlankStrings :
    /\ Refused(CreateUserEffect([first_name |-> s, last_name |-> "Li", email |-> "c@x.com",
                                 password |-> "secret1", is_admin |-> FALSE]), BadRequest)
    /\ Refused(CreateUserEffect([first_name |-> "Al", last_name |-> s, email |-> "c@x.com",
                                 password |-> "secret1", is_admin |-> FALSE]), BadRequest)
    /\ \A t \in tokens :
         /\ t.id \in DOMAIN users
              => Refused(CreatePlaceEffect(t, [title |-> s, price |-> 100, latitude |-> 45,
                                               longitude |-> 2, owner_id |-> t.id,
                                               has_amenities |-> FALSE, amenities |-> {}]),
                         BadRequest)
         /\ \A p \in DOMAIN places :
              (t.id \in DOMAIN users /\ ~IsOwnPlace(places[p], t)
               /\ ~user_has_reviewed_place(t.id, p))
                 => Refused(CreateReviewEffect(t, [text |-> s, rating |-> 40,
                                                   user_id |-> t.id, place_id |-> p]),
                            BadRequest)

\* the keys under which a representation could carry a password hash
PasswordKeys == {"password", "password_hash"}

\* C22: in every state, the representation of every user, the owner summary
\* in the representation of every place and the author summary in the
\* representation of every review carry no password field
C22_NoPasswordInRepresentations ==
  /\ \A u \in DOMAIN users : DOMAIN UserToDict(u) \cap PasswordKeys = {}
  /\ \A p \in DOMAIN places :
       /\ DOMAIN PlaceToDict(p) \cap PasswordKeys = {}
       /\ DOMAIN PlaceToDict(p).owner \cap PasswordKeys = {}
  /\ \A r \in DOMAIN reviews :
       /\ DOMAIN ReviewToDict(r) \cap PasswordKeys = {}
       /\ DOMAIN ReviewToDict(r).user \cap PasswordKeys = {}

\* C22 witness: a review was created and its representation names an author
\* and, through its place, an owner, who both have a password hash stored
C22_ReviewWithAuthorReturned ==
  /\ last.op = "create_review"
  /\ last.status = Created
  /\ last.target \in DOMAIN reviews
  /\ LET author == ReviewToDict(last.target).user.id
         owner == PlaceToDict(ReviewToDict(last.target).place.id).owner.id
     IN /\ author # owner
        /\ users[author].password # <<Null>>
        /\ users[owner].password # <<Null>>
        /\ UserToDict(author).email = users[author].email

\* C23: GET /reviews/places/<place_id>/reviews is answered 404 Not Found when
\* place_id names no stored place, and 200 with a list only when it names one
C23_ReviewsOfUnknownPlaceAreNotFound ==
  \A p \in PlaceIds :
    /\ p \notin DOMAIN places => ListPlaceReviewsStatus(p) = NotFound
    /\ ListPlaceReviewsStatus(p) = OK => p \in DOMAIN places

AdminRolePayloads == {[d EXCEPT !.is_admin = v] : d \in AdminUpdatePayloads, v \in {"true", "false"}}

\* C25: a successful update of a user on the administrator's route leaves the
\* user's id and is_admin as they were, whatever keys the payload carries, and
\* no user appears or disappears
C25_AdminUpdateKeepsRole ==
  \A t \in tokens, u \in DOMAIN users, d \in AdminUpdatePayloads \cup AdminRolePayloads :
    LET e == UpdateUserAdminEffect(t, u, d) IN
    e.status = OK =>
      /\ DOMAIN e.users = DOMAIN users
      /\ e.users[u].is_admin = users[u].is_admin

\* C26: in every state, every stored amenity that has a place_id names a
\* stored place, and its owner_id is the owner_id of that place
C26_AmenityOwnerIsPlaceOwner ==
  \A a \in DOMAIN amenities :
    amenities[a].place_id # None =>
      /\ amenities[a].place_id \in DOMAIN places
      /\ amenities[a].owner_id = places[amenities[a].place_id].owner_id

\* C27: no two stored reviews have the same (user, place) pair, and when the
\* insert of a creation in flight is reached after another creation stored a
\* review of the same pair, it is answered 409 Conflict and stores nothing
C27_RacingReviewIsConflict ==
  /\ \A r1, r2 \in DOMAIN reviews :
       (reviews[r1].user_id = reviews[r2].user_id
        /\ reviews[r1].place_id = reviews[r2].place_id) => r1 = r2
  /\ \A req \in inflight :
       (\E r \in DOMAIN reviews : reviews[r].user_id = req.d.user_id
                                  /\ reviews[r].place_id = req.d.place_id)
          => Refused(InsertReviewEffect(req.d), Conflict)

\* C28: a user stored by POST /users/ has is_admin = FALSE whatever the
\* payload carries, and on a database that started without an administrator
\* no stored user is an administrator
C28_RegistrationNeverMakesAdmins ==
  /\ \A u \in DOMAIN users : ~users[u].is_admin
  /\ \A d \in RegistrationPayloads :
       LET e == CreateUserEffect(d) IN
       e.status = Created => ~e.users[e.new].is_admin

\* C29: in every state, the owner_id of every place names a stored user, the
\* user_id and the place_id of every review name a stored user and a stored
\* place, and every row of place_amenity names a stored place and a stored
\* amenity
C29_ReferentialIntegrity ==
  /\ \A p \in DOMAIN places : places[p].owner_id \in DOMAIN users
  /\ \A r \in DOMAIN reviews :
       reviews[r].user_id \in DOMAIN users /\ reviews[r].place_id \in DOMAIN places
  /\ \A pa \in place_amenity : pa[1] \in DOMAIN places /\ pa[2] \in DOMAIN amenities

\* C29 witness: a user was deleted together with a place, a review of it and
\* its association with an amenity, and the amenity is still stored
C29_UserWithReferencedRowsDeleted ==
  /\ last.op = "delete_user"
  /\ last.status = OK
  /\ last.gone.places # {}
  /\ last.gone.reviews # {}
  /\ \E pa \in last.gone.place_amenity : pa[2] \in DOMAIN amenities

\* updates of a review that change its rating, with each set of extra keys
ReviewKeyUpdates ==
  {d \in ReviewUpdatePayloads : d.text = Absent /\ d.rating \in {AbsentNum, 20}
                                 /\ d.order = "text_rating"}

\* C30: in every state, no stored review was written by the owner of the
\* place it reviews; a successful update of a review leaves its user_id and
\* place_id as they were, and a successful update of a place leaves its
\* owner_id as it was, whatever keys the payload carries
C30_NoReviewOfOwnPlace ==
  /\ \A r \in DOMAIN reviews :
       /\ reviews[r].place_id \in DOMAIN places
       /\ reviews[r].user_id # places[reviews[r].place_id].owner_id
  /\ \A t \in tokens, r \in DOMAIN reviews, d \in ReviewKeyUpdates :
       LET e == UpdateReviewEffect(t, r, d) IN
       e.status = OK => /\ e.reviews[r].user_id = reviews[r].user_id
                        /\ e.reviews[r].place_id = reviews[r].place_id
  /\ \A t \in tokens, p \in DOMAIN places, d \in PlaceUpdatePayloads(NoAmenityList) :
       LET e == UpdatePlaceEffect(t, p, d) IN
       e.status = OK => e.places[p].owner_id = places[p].owner_id

\* C30 witness: a member's review of their own place came back 403 while the
\* place has a review written by somebody else
C30_OwnReviewWasRefused ==
  /\ last.op = "create_review"
  /\ last.status = Forbidden
  /\ last.target \in DOMAIN places
  /\ \E r \in DOMAIN reviews :
       /\ reviews[r].place_id = last.target
       /\ reviews[r].user_id # places[last.target].owner_id

====
